---- MODULE Spec2Model ----
(***************************************************************************)
(* Model of jira_project_dataframes (src/jira_dataframes.py): the table    *)
(* registry, the normalizer data_part_to_dataframe, the watermark resolver *)
(* get_issues_file_mod_date, the merge update_dataframe, and the sync pass *)
(* get_project_data with its per-table loop over refresh_data_part.        *)
(*                                                                         *)
(* A dataframe is [isNone, rows]: Python's None, or a sequence of rows in  *)
(* frame order.  A row is a function from column names to values: the     *)
(* table's key column (child tables), "issue_key", and "rev", which stands *)
(* for every other column and holds the tick of the fetch the row was      *)
(* normalized from; worklog and comment rows also have "author".  Issue    *)
(* keys are 1..NumParents, ordered as the strings they stand for.  The     *)
(* frame index is not modelled: no operation used here reads it and        *)
(* to_csv(index=False) drops it.                                           *)
(*                                                                         *)
(* files0, returned and aborted are history variables: they record what    *)
(* the claims about whole passes speak of and no action reads them.        *)
(***************************************************************************)
EXTENDS Integers, Sequences, FiniteSets, TLC

\* ------------------------------------------------------------------ bounds
NumParents == 2      \* issue keys of the remote project: 1..NumParents
MaxItems == 1        \* sub-items (components, worklogs, ...) per issue and table
MaxPasses == 2       \* calls of get_project_data in one behaviour
TicksPerDay == 2     \* clock ticks per calendar day (one tick passes per call)

Parents == 1..NumParents

\* ---------------------------------------------------------- table registry
\* self.data_part_settings: the 'data_part' column, in registry order
DataParts ==
  << "issues", "issue_components", "issue_labels",
     "issue_stakeholders", "issue_worklogs", "issue_comments" >>

\* self.data_part_settings: the 'key_name' column
KeyNames ==
  << "issue_key", "issue_component_key", "issue_label_key",
     "issue_stakeholder_key", "issue_worklog_id", "issue_comments_id" >>

PartIndex(data_part_name) ==
  CHOOSE k \in 1..Len(DataParts) : DataParts[k] = data_part_name

\* get_data_part_element(data_part_name, 'key_name')
get_data_part_element(data_part_name) == KeyNames[PartIndex(data_part_name)]

PartSet == { DataParts[k] : k \in 1..Len(DataParts) }

\* ------------------------------------------------------------- dataframes
NoneDF == [isNone |-> TRUE, rows |-> << >>]

\* a frame holding the given rows, as pd.DataFrame() filled by .loc
Frame(rows) == [isNone |-> FALSE, rows |-> rows]

\* ist.dataframe_has_rows(df), as update_dataframe uses it
dataframe_has_rows(df) == (~df.isNone) /\ Len(df.rows) > 0

\* the set of values of one column
ColumnSet(rows, col) == { rows[k][col] : k \in 1..Len(rows) }

\* the filter left out: every existing row is kept
FilterNotIn_unfiltered(rows, issue_keys) == rows

\* the negation left out: only the rows of the incoming parents are kept
FilterNotIn_inverted(rows, issue_keys) ==
  SelectSeq(rows, LAMBDA r : r["issue_key"] \in issue_keys)

\* existing_df[~existing_df['issue_key'].isin(issue_keys)]
FilterNotIn(rows, issue_keys) ==
  SelectSeq(rows, LAMBDA r : r["issue_key"] \notin issue_keys)

\* the deduplication left out
drop_duplicates_none(rows, key_column) == rows

\* DataFrame.drop_duplicates(key_column): the first row of each key is kept
RECURSIVE drop_duplicates(_, _)
drop_duplicates(rows, key_column) ==
  IF rows = << >> THEN << >>
  ELSE LET n == Len(rows)
           front == drop_duplicates(SubSeq(rows, 1, n - 1), key_column)
       IN  IF \E j \in 1..(n - 1) : rows[j][key_column] = rows[n][key_column]
           THEN front
           ELSE Append(front, rows[n])

\* DataFrame.sort_values(key_column): ascending
sort_values(rows, key_column) ==
  SortSeq(rows, LAMBDA a, b : a[key_column] < b[key_column])

\* ------------------------------------------------------------ merge engine
\* the two pass-through branches swapped
update_dataframe_swapped(existing_df, updated_df, key_column) ==
  LET existing == dataframe_has_rows(existing_df)
      updated == dataframe_has_rows(updated_df)
  IN  IF updated /\ existing
      THEN LET issue_keys == ColumnSet(updated_df.rows, "issue_key")
               kept == FilterNotIn(existing_df.rows, issue_keys)
               concat == updated_df.rows \o kept
           IN  Frame(sort_values(drop_duplicates(concat, key_column), key_column))
      ELSE IF updated /\ ~existing THEN existing_df
      ELSE IF ~updated /\ existing THEN updated_df
      ELSE NoneDF

\* update_dataframe(existing_df, updated_df, key_column)
update_dataframe(existing_df, updated_df, key_column) ==
  LET existing == dataframe_has_rows(existing_df)
      updated == dataframe_has_rows(updated_df)
  IN  IF updated /\ existing
      THEN LET issue_keys == ColumnSet(updated_df.rows, "issue_key")
               kept == FilterNotIn(existing_df.rows, issue_keys)
               concat == updated_df.rows \o kept
           IN  Frame(sort_values(drop_duplicates(concat, key_column), key_column))
      ELSE IF updated /\ ~existing THEN updated_df
      ELSE IF ~updated /\ existing THEN existing_df
      ELSE NoneDF

\* -------------------------------------------------------------- normalizer
\* A fetched issue is [key, items]: its issue key and the number of entries
\* in each of issue.fields.components, issue.fields.labels and
\* issue.fields.customfield_10800 (none when that field is None).  The
\* answers of jira.worklogs(issue) and jira.comments(issue) are given per
\* issue key by `remote`: one flag per worklog or comment, in the order of
\* the answer, telling whether the entry has an author attribute.
ItemCount(issue, data_part_name, remote) ==
  CASE data_part_name = "issue_components" -> issue.items
    [] data_part_name = "issue_labels" -> issue.items
    [] data_part_name = "issue_stakeholders" -> issue.items
    [] data_part_name = "issue_worklogs" -> Len(remote[issue.key])
    [] data_part_name = "issue_comments" -> Len(remote[issue.key])
    [] OTHER -> 0

\* the data parts whose rows come from one remote call per issue
FetchedPerIssue == { "issue_worklogs", "issue_comments" }

\* per entry of the issue for this data part, whether x.author exists
ItemAuthors(issue, data_part_name, remote) ==
  IF data_part_name = "issues" THEN << TRUE >>
  ELSE IF data_part_name \in FetchedPerIssue THEN remote[issue.key]
  ELSE [j \in 1..ItemCount(issue, data_part_name, remote) |-> TRUE]

\* no handler anywhere: a missing author attribute always raises
AuthorErrorCaught_nowhere(data_part_name) == FALSE

\* whether the branch of the data part reads x.author.displayName inside
\* try / except AttributeError
AuthorErrorCaught(data_part_name) == data_part_name = "issue_comments"

\* the numbering started at 0
NewRow_zero_based(data_part_name, i, issue, rev, has_author) ==
  IF data_part_name = "issues"
  THEN [issue_key |-> issue.key, rev |-> rev]
  ELSE IF data_part_name \in FetchedPerIssue
  THEN (get_data_part_element(data_part_name) :> (i - 1))
       @@ [issue_key |-> issue.key, rev |-> rev,
           author |-> IF has_author THEN "displayName" ELSE "Unknown"]
  ELSE (get_data_part_element(data_part_name) :> (i - 1))
       @@ [issue_key |-> issue.key, rev |-> rev]

\* the row written at index i = len(return_dataframe) + 1; in the comments
\* branch the except clause writes the same index i again, with author
\* 'Unknown'
NewRow(data_part_name, i, issue, rev, has_author) ==
  IF data_part_name = "issues"
  THEN [issue_key |-> issue.key, rev |-> rev]
  ELSE IF data_part_name \in FetchedPerIssue
  THEN (get_data_part_element(data_part_name) :> i)
       @@ [issue_key |-> issue.key, rev |-> rev,
           author |-> IF has_author THEN "displayName" ELSE "Unknown"]
  ELSE (get_data_part_element(data_part_name) :> i)
       @@ [issue_key |-> issue.key, rev |-> rev]

RECURSIVE AppendItems(_, _, _, _, _)
AppendItems(rows, data_part_name, issue, authors, rev) ==
  IF authors = << >> THEN rows
  ELSE AppendItems(
         Append(rows, NewRow(data_part_name, Len(rows) + 1, issue, rev,
                             Head(authors))),
         data_part_name, issue, Tail(authors), rev)

RECURSIVE NormalizeFrom(_, _, _, _, _, _)
NormalizeFrom(rows, batch, k, data_part_name, remote, rev) ==
  IF k > Len(batch) THEN rows
  ELSE LET issue == batch[k]
           authors == ItemAuthors(issue, data_part_name, remote)
       IN  NormalizeFrom(AppendItems(rows, data_part_name, issue, authors, rev),
                         batch, k + 1, data_part_name, remote, rev)

\* data_part_to_dataframe(issues, data_part_name)
data_part_to_dataframe(batch, data_part_name, remote, rev) ==
  Frame(NormalizeFrom(<< >>, batch, 1, data_part_name, remote, rev))

\* ------------------------------------------------------------------- state
VARIABLES
  project_key,           \* self.project_key: "" when missing
  files,                 \* the data directory: per data part, the stored csv
  data_part_dataframes,  \* self.data_part_dataframes
  issues,                \* self.issues / the batch of the pass
  now,                   \* the clock, in ticks
  pc,                    \* where get_project_data is
  from_date,             \* get_project_data's from_date
  explicit,              \* whether the caller gave from_date
  jql,                   \* the query handed to jira.search_issues
  idx,                   \* position of the per-table loop in DataParts
  error,                 \* the exception get_project_data raised, or "none"
  log,                   \* remote calls and file operations of the pass, in order
  call,                  \* the latest update_dataframe call: arguments and result
  files0,                \* the data directory as it was when the pass started
  returned,              \* per issue key, the tick of the latest batch holding it
  aborted                \* whether a pass was ended inside the per-table loop

vars ==
  << project_key, files, data_part_dataframes, issues, now, pc, from_date,
     explicit, jql, idx, error, log, call, files0, returned, aborted >>

NoFile == [exists |-> FALSE, rows |-> << >>, mtime |-> 0]

NoneDate == [kind |-> "None", day |-> 0]

EmptyDate == [kind |-> "Empty", day |-> 0]

StrDate(d) == [kind |-> "Str", day |-> d]

NoQuery == [kind |-> "none", day |-> 0]

\* jira.worklogs / jira.comments answering with nothing for every issue
NoAnswers == [p \in Parents |-> << >>]

NoCall ==
  [part |-> "none", existing |-> NoneDF, updated |-> NoneDF,
   result |-> NoneDF, remote |-> NoAnswers]

Event(op, part, issue) == [op |-> op, part |-> part, issue |-> issue]

\* the arguments a caller passes as from_date
FromDateArgs == { NoneDate, EmptyDate, StrDate(0) }

\* what jira.search_issues may return: distinct issues, in any order
IssueRecords ==
  [key : Parents, items : 0..MaxItems]

Batches ==
  UNION { { b \in [1..n -> IssueRecords] :
              \A i, j \in 1..n : i # j => b[i].key # b[j].key } :
          n \in 0..NumParents }

\* what jira.worklogs / jira.comments may return for the issues of a batch
AuthorFlags == UNION { [1..n -> BOOLEAN] : n \in 0..MaxItems }

RemoteAnswers(batch) ==
  { r \in [Parents -> AuthorFlags] :
      \A p \in Parents : p \notin ColumnSet(batch, "key") => r[p] = << >> }

Init ==
  /\ project_key \in { "", "PRJ" }
  /\ files = [t \in PartSet |-> NoFile]
  /\ data_part_dataframes = [t \in PartSet |-> [present |-> FALSE, df |-> NoneDF]]
  /\ issues = << >>
  /\ now = 0
  /\ pc = "Idle"
  /\ from_date = NoneDate
  /\ explicit = FALSE
  /\ jql = NoQuery
  /\ idx = 0
  /\ error = "none"
  /\ log = << >>
  /\ call = NoCall
  /\ files0 = files
  /\ returned = [p \in Parents |-> 0]
  /\ aborted = FALSE

\* ------------------------------------------------------- watermark resolver
\* dt.fromtimestamp(mtime) + timedelta(days=-1), formatted "%Y-%m-%d"
BackdatedDay(mtime) == (mtime - TicksPerDay) \div TicksPerDay

\* the modification date taken from the last data part's file
get_issues_file_mod_date_wrong_file ==
  IF files["issue_comments"].exists
  THEN StrDate(BackdatedDay(files["issue_comments"].mtime))
  ELSE EmptyDate

\* get_issues_file_mod_date()
get_issues_file_mod_date ==
  IF files["issues"].exists
  THEN StrDate(BackdatedDay(files["issues"].mtime))
  ELSE EmptyDate

\* Python's `not from_date`
NotFromDate(fd) == fd.kind \in { "None", "Empty" }

\* ------------------------------------------------------------ orchestrator
Returned == pc \in { "Idle", "Done", "Raised" }

\* an exception leaves get_project_data
Raise(exc) ==
  /\ pc' = "Raised"
  /\ error' = exc

\* the precondition left out
MissingProjectKey_unchecked == FALSE

\* `if not self.project_key`
MissingProjectKey == project_key = ""

\* the attribute self.project_key is set by the caller
SetProjectKey(k) ==
  /\ Returned
  /\ now < MaxPasses
  /\ project_key # k
  /\ project_key' = k
  /\ UNCHANGED << files, data_part_dataframes, issues, now, pc, from_date,
                  explicit, jql, idx, error, log, call, files0, returned,
                  aborted >>

\* get_project_data(from_date): the precondition on project_key
GetProjectData(fd) ==
  /\ Returned
  /\ now < MaxPasses
  /\ now' = now + 1
  /\ from_date' = fd
  /\ explicit' = (fd.kind # "None")
  /\ jql' = NoQuery
  /\ idx' = 0
  /\ log' = << >>
  /\ call' = NoCall
  /\ files0' = files
  /\ IF MissingProjectKey
     THEN Raise("ValueError")
     ELSE /\ pc' = IF fd.kind = "None" THEN "ResolvingWatermark" ELSE "Fetching"
          /\ error' = "none"
  /\ UNCHANGED << project_key, files, data_part_dataframes, issues, returned,
                  aborted >>

\* from_date = self.get_issues_file_mod_date()
ResolveWatermark ==
  /\ pc = "ResolvingWatermark"
  /\ from_date' = get_issues_file_mod_date
  /\ log' = Append(log, Event("stat", "issues", 0))
  /\ pc' = "Fetching"
  /\ UNCHANGED << project_key, files, data_part_dataframes, issues, now,
                  explicit, jql, idx, error, call, files0, returned, aborted >>

\* the query of retrieve_issues(jql="project=...") or retrieve_latest_issues
QueryFor(fd) ==
  IF NotFromDate(fd) THEN [kind |-> "FULL", day |-> 0]
  ELSE [kind |-> "INCREMENTAL", day |-> fd.day]

\* retrieve_issues / retrieve_latest_issues: jira.search_issues answers or fails
RetrieveIssues(batch, ok) ==
  /\ pc = "Fetching"
  /\ jql' = QueryFor(from_date)
  /\ log' = Append(log, Event("search", "", 0))
  /\ IF ok
     THEN /\ issues' = batch
          /\ returned' = [p \in Parents |->
                            IF p \in ColumnSet(batch, "key") THEN now
                            ELSE returned[p]]
          /\ pc' = "PerTableMergeLoop"
          /\ idx' = 1
          /\ error' = error
     ELSE /\ Raise("RemoteError")
          /\ UNCHANGED << issues, idx, returned >>
  /\ UNCHANGED << project_key, files, data_part_dataframes, now, from_date,
                  explicit, call, files0, aborted >>

\* ------------------------------------------------------- refresh_data_part
\* file_to_dataframe(file_path): pd.read_csv, or None when no file is found
file_to_dataframe(data_part_name) ==
  IF files[data_part_name].exists
  THEN Frame(files[data_part_name].rows)
  ELSE NoneDF

RemoteOp(data_part_name) ==
  IF data_part_name = "issue_worklogs" THEN "worklogs" ELSE "comments"

\* the comments of every issue fetched along with its worklogs
NormalizeEvents_prefetching(data_part_name, n) ==
  << Event("normalize", data_part_name, 0) >>
  \o (IF data_part_name = "issue_worklogs"
      THEN [k \in 1..(2 * n) |->
              IF k % 2 = 1
              THEN Event("worklogs", "issue_worklogs", issues[(k + 1) \div 2].key)
              ELSE Event("comments", "issue_comments", issues[k \div 2].key)]
      ELSE IF data_part_name = "issue_comments"
      THEN [k \in 1..n |-> Event("comments", data_part_name, issues[k].key)]
      ELSE << >>)

\* the events of data_part_to_dataframe over the first n issues of the batch
NormalizeEvents(data_part_name, n) ==
  << Event("normalize", data_part_name, 0) >>
  \o (IF data_part_name \in FetchedPerIssue
      THEN [k \in 1..n |-> Event(RemoteOp(data_part_name), data_part_name,
                                 issues[k].key)]
      ELSE << >>)

\* the for loop of get_project_data after refresh_data_part returned
NextTable ==
  /\ idx' = idx + 1
  /\ pc' = IF idx = Len(DataParts) THEN "Done" ELSE "PerTableMergeLoop"
  /\ error' = error
  /\ aborted' = aborted

\* the exception caught and reported, the loop going on
FailTable_caught(exc) ==
  /\ idx' = idx + 1
  /\ pc' = IF idx = Len(DataParts) THEN "Done" ELSE "PerTableMergeLoop"
  /\ error' = exc
  /\ aborted' = TRUE

\* the for loop of get_project_data when refresh_data_part raised:
\* there is no try around the call
FailTable(exc) ==
  /\ Raise(exc)
  /\ idx' = idx
  /\ aborted' = TRUE

\* the write left out: the merge result stays in memory only
to_csv_skipped(data_part_name, final_df) == files

\* final_df.to_csv(file_path, index=False)
to_csv(data_part_name, final_df) ==
  [files EXCEPT ![data_part_name] =
     [exists |-> TRUE, rows |-> final_df.rows, mtime |-> now]]

Outcomes == { "ok", "remote_fail", "read_fail", "write_fail" }

\* the positions in the batch of the issues whose answer holds an entry
\* without author
AuthorMissingAt(remote) ==
  { k \in 1..Len(issues) :
      \E j \in 1..Len(remote[issues[k].key]) : ~remote[issues[k].key][j] }

\* x.author.displayName raises AttributeError and no handler is around it
AuthorErrorRaised(data_part_name, remote) ==
  /\ data_part_name \in FetchedPerIssue
  /\ ~AuthorErrorCaught(data_part_name)
  /\ AuthorMissingAt(remote) # { }

Min(S) == CHOOSE k \in S : \A m \in S : k <= m

\* refresh_data_part(data_part, issues), one iteration of the per-table loop.
\* remote: the answers of jira.worklogs / jira.comments; outcome: which of the
\* collaborators fails, if any; failPos: the issue whose remote call fails.
\* from_date and the query are locals of get_project_data that nothing reads
\* once the loop runs: they are dropped at its first iteration.
\* To keep the state space small an issue has as many worklogs as it has
\* components; its comments are not tied to anything.
\* An entry without author ends the normalization with AttributeError at its
\* issue, unless the branch of the data part handles it.
\* self.data_part_dataframes is assigned before to_csv is called, so it holds
\* the merge result also when to_csv raises; a to_csv that raises is taken to
\* fail on opening the file, which it leaves as it was.
RefreshDataPart(remote, outcome, failPos) ==
  /\ pc = "PerTableMergeLoop"
  /\ LET data_part_name == DataParts[idx]
         key_name == get_data_part_element(data_part_name)
         updated_df == data_part_to_dataframe(issues, data_part_name, remote, now)
         existing_df == file_to_dataframe(data_part_name)
         final_df == update_dataframe(existing_df, updated_df, key_name)
         normalized == log \o NormalizeEvents(data_part_name, Len(issues))
         read == Append(normalized, Event("read", data_part_name, 0))
     IN
     /\ data_part_name \notin FetchedPerIssue => remote = NoAnswers
     /\ data_part_name = "issue_worklogs" =>
          (outcome = "remote_fail"
             \/ \A k \in 1..Len(issues) :
                  Len(remote[issues[k].key]) = issues[k].items)
     /\ CASE AuthorErrorRaised(data_part_name, remote) ->
               /\ outcome = "ok"
               /\ failPos = 1
               /\ log' = log \o NormalizeEvents(data_part_name,
                                                Min(AuthorMissingAt(remote)))
               /\ FailTable("AttributeError")
               /\ UNCHANGED << files, data_part_dataframes, call >>
          [] outcome = "remote_fail" ->
               /\ data_part_name \in FetchedPerIssue
               /\ failPos \in 1..Len(issues)
               /\ remote = NoAnswers
               /\ log' = log \o NormalizeEvents(data_part_name, failPos)
               /\ FailTable("RemoteError")
               /\ UNCHANGED << files, data_part_dataframes, call >>
          [] outcome = "read_fail" ->
               /\ failPos = 1
               /\ files[data_part_name].exists
               /\ log' = read
               /\ FailTable("IOError")
               /\ UNCHANGED << files, data_part_dataframes, call >>
          [] OTHER ->
               /\ failPos = 1
               /\ call' = [part |-> data_part_name, existing |-> existing_df,
                           updated |-> updated_df, result |-> final_df,
                           remote |-> remote]
               /\ data_part_dataframes' =
                    [data_part_dataframes EXCEPT ![data_part_name] =
                       [present |-> TRUE, df |-> final_df]]
               /\ IF final_df.isNone
                  THEN /\ outcome = "ok"
                       /\ log' = read
                       /\ FailTable("AttributeError")
                       /\ UNCHANGED files
                  ELSE IF outcome = "write_fail"
                  THEN /\ log' = Append(read, Event("write", data_part_name, 0))
                       /\ FailTable("IOError")
                       /\ UNCHANGED files
                  ELSE /\ log' = Append(read, Event("write", data_part_name, 0))
                       /\ files' = to_csv(data_part_name, final_df)
                       /\ NextTable
  /\ from_date' = NoneDate
  /\ explicit' = FALSE
  /\ jql' = NoQuery
  /\ UNCHANGED << project_key, issues, now, files0, returned >>

Next ==
  \/ \E k \in { "", "PRJ" } : SetProjectKey(k)
  \/ \E fd \in FromDateArgs : GetProjectData(fd)
  \/ ResolveWatermark
  \/ \E batch \in Batches, ok \in BOOLEAN : RetrieveIssues(batch, ok)
  \/ \E remote \in RemoteAnswers(issues), outcome \in Outcomes,
        failPos \in 1..NumParents :
       RefreshDataPart(remote, outcome, failPos)

Spec == Init /\ [][Next]_vars

\* ------------------------------------------------------------ claim helpers
Called == call.part # "none"

CallKey == get_data_part_element(call.part)

BothHaveRows ==
  dataframe_has_rows(call.existing) /\ dataframe_has_rows(call.updated)

RowSet(rows) == { rows[k] : k \in 1..Len(rows) }

Referencing(rows, p) == SelectSeq(rows, LAMBDA r : r["issue_key"] = p)

IncomingParents == ColumnSet(call.updated.rows, "issue_key")

Distinct(rows, col) ==
  \A i, j \in 1..Len(rows) : i # j => rows[i][col] # rows[j][col]

Ascending(rows, col) ==
  \A i, j \in 1..Len(rows) : i < j => rows[i][col] <= rows[j][col]

PartEvents(data_part_name) ==
  { k \in 1..Len(log) : log[k].part = data_part_name /\ log[k].op # "stat" }

\* ------------------------------------------------------------------ claims

\* C1 (as claimed): in a merge of a non-empty existing snapshot with a
\* non-empty incoming batch, every existing row that references a parent
\* absent from incoming is present, unchanged, in the result.
C1_Preservation ==
  (Called /\ BothHaveRows) =>
    \A r \in RowSet(call.existing.rows) :
      r["issue_key"] \notin IncomingParents => r \in RowSet(call.result.rows)

\* C2: in a merge of a non-empty existing snapshot with a non-empty incoming
\* batch, for every parent P of incoming the result's rows referencing P are
\* exactly incoming's rows referencing P.
C2_FullReplacement ==
  (Called /\ BothHaveRows) =>
    \A p \in IncomingParents :
      Referencing(call.result.rows, p) = Referencing(call.updated.rows, p)

\* C2 witness: a merge in which an existing row of a parent of incoming is
\* replaced (it is not in the result).
C2_Witness ==
  /\ Called /\ BothHaveRows
  /\ \E r \in RowSet(call.existing.rows) :
       /\ r["issue_key"] \in IncomingParents
       /\ r \notin RowSet(call.result.rows)
       /\ r[CallKey] \notin ColumnSet(call.updated.rows, CallKey)

\* C3: the key values of every merge result, and of every stored snapshot,
\* are pairwise distinct.
C3_Uniqueness ==
  /\ Called => Distinct(call.result.rows, CallKey)
  /\ \A t \in PartSet :
       /\ Distinct(files[t].rows, get_data_part_element(t))
       /\ Distinct(data_part_dataframes[t].df.rows, get_data_part_element(t))

\* C3 witness: a merge result for which an existing row kept by the filter
\* carried the same key as an incoming row, stored after the pass went on.
C3_Witness ==
  /\ Called /\ BothHaveRows
  /\ \E r \in RowSet(call.existing.rows) :
       /\ r["issue_key"] \notin IncomingParents
       /\ r[CallKey] \in ColumnSet(call.updated.rows, CallKey)
  /\ files[call.part].rows = call.result.rows

\* C4 (as claimed): every snapshot returned by a merge is sorted ascending
\* by its key, whichever merge case applies.
C4_Ordering ==
  (Called /\ ~call.result.isNone) => Ascending(call.result.rows, CallKey)

\* C5 (as claimed): merging the incoming batch into the merge result again
\* yields the merge result: same rows in the same order.
C5_Idempotence ==
  Called => update_dataframe(call.result, call.updated, CallKey) = call.result

\* C6 (as claimed): a merge with no data on either side does not abort the
\* pass.
C6_NoDataDoesNotAbort ==
  (Called /\ call.result.isNone) => pc # "Raised"

\* C7: when exactly one side of a merge has rows the result is that side,
\* row for row; with an empty incoming batch the snapshot written back is
\* the one that was read.
C7_PassThrough ==
  Called =>
    /\ (dataframe_has_rows(call.updated) /\ ~dataframe_has_rows(call.existing))
         => call.result = call.updated
    /\ (~dataframe_has_rows(call.updated) /\ dataframe_has_rows(call.existing))
         => /\ call.result = call.existing
            /\ data_part_dataframes[call.part].df.rows = call.existing.rows
            /\ files[call.part].rows = call.existing.rows

\* C7 witness: a pass that fetched nothing wrote back a stored snapshot of
\* more than one row.
C7_Witness ==
  /\ Called
  /\ issues = << >>
  /\ Len(call.existing.rows) > 1
  /\ pc = "Done"

\* C8: without an explicit from_date the query is the full-project query
\* exactly when no issues file exists, and otherwise the incremental query
\* from the day before the file's modification time; the resolver does not
\* raise.
C8_WatermarkRouting ==
  /\ (jql.kind # "none" /\ ~explicit /\ idx <= 1) =>
       /\ jql.kind = "FULL" <=> ~files["issues"].exists
       /\ jql.kind = "INCREMENTAL" =>
            /\ jql.day * TicksPerDay <= files["issues"].mtime - TicksPerDay
            /\ files["issues"].mtime - TicksPerDay < (jql.day + 1) * TicksPerDay
  /\ (log # << >> /\ log[Len(log)].op = "stat") =>
       (pc = "Fetching" /\ error = "none")

\* C8 witness: an incremental query issued by a pass started without
\* from_date.
C8_Witness ==
  /\ jql.kind = "INCREMENTAL"
  /\ ~explicit
  /\ idx = 1
  /\ pc = "PerTableMergeLoop"

\* C9: a pass started with no project key raises the precondition error at
\* once: the watermark is not resolved, nothing is fetched, read or written,
\* and no stored snapshot changes.
C9_MissingProjectKey ==
  [][(project_key = "" /\ now' # now) =>
       /\ pc' = "Raised"
       /\ error' = "ValueError"
       /\ log' = << >>
       /\ jql' = NoQuery
       /\ files' = files
       /\ data_part_dataframes' = data_part_dataframes
       /\ issues' = issues]_vars

\* C9 witness: the precondition error raised while snapshots are stored.
C9_Witness ==
  /\ pc = "Raised"
  /\ error = "ValueError"
  /\ project_key = ""
  /\ files["issues"].exists

\* C10 (as claimed): every one of the six tables is attempted in every pass
\* that entered the per-table loop, whatever happened to the tables before.
C10_EveryTableAttempted ==
  (pc \in { "Done", "Raised" } /\ idx >= 1) =>
    \A t \in PartSet : PartEvents(t) # { }

\* C10 (amended): a failure while processing a table is not caught by the
\* loop: it ends the pass, and no table after the failing one is attempted;
\* a table is attempted only after all tables before it were written back.
C10_FailureEndsLoop ==
  /\ error # "none" => pc = "Raised"
  /\ (pc = "Raised" /\ idx >= 1) =>
       \A t \in PartSet : PartIndex(t) > idx => PartEvents(t) = { }
  /\ \A t \in PartSet :
       PartEvents(t) # { } =>
         \A u \in PartSet :
           PartIndex(u) < PartIndex(t) =>
             \E k \in PartEvents(u) : log[k].op = "write" /\ k < Len(log)
  /\ pc = "Done" => \A t \in PartSet : PartEvents(t) # { }

\* C10 witness: a pass ended by a failure at a table that is not the last.
C10_Witness ==
  /\ pc = "Raised"
  /\ idx >= 1
  /\ idx < Len(DataParts)
  /\ error \in { "IOError", "RemoteError" }

\* the stored snapshot of a table as the pass found it, as a dataframe
ExistingAtStart(data_part_name) ==
  IF files0[data_part_name].exists
  THEN Frame(files0[data_part_name].rows)
  ELSE NoneDF

FailedAtTable ==
  pc = "Raised" /\ idx >= 1 /\ error \in { "IOError", "RemoteError" }

RowsOfIssue(rows, k) == Referencing(rows, issues[k].key)

\* C12: normalizing comments does not fail because a comment has no author:
\* every comment of every issue of the batch yields exactly one row, in the
\* order of the answer, carrying its key and its parent's issue key; the row
\* of a comment without author has author "Unknown" and every other row has
\* the author's name.
C12_CommentWithoutAuthor ==
  /\ (Called /\ call.part = "issue_comments") =>
       /\ \A k \in 1..Len(issues) :
            LET answer == call.remote[issues[k].key]
                rows == RowsOfIssue(call.updated.rows, k)
            IN  /\ Len(rows) = Len(answer)
                /\ \A j \in 1..Len(rows) :
                     /\ rows[j]["rev"] = now
                     /\ rows[j]["author"] =
                          (IF answer[j] THEN "displayName" ELSE "Unknown")
       /\ \A i \in 1..Len(call.updated.rows) :
            /\ call.updated.rows[i][CallKey] = i
            /\ call.updated.rows[i]["issue_key"] \in ColumnSet(issues, "key")
  /\ (pc = "Raised" /\ idx = PartIndex("issue_comments")
        /\ error = "AttributeError") =>
       (Called /\ call.part = "issue_comments" /\ call.result.isNone)

\* C12 witness: a comments table normalized from a comment without author
\* and a comment with one, and written back.
C12_Witness ==
  /\ Called
  /\ call.part = "issue_comments"
  /\ pc = "Done"
  /\ \E i, j \in 1..Len(call.updated.rows) :
       /\ call.updated.rows[i]["author"] = "Unknown"
       /\ call.updated.rows[j]["author"] = "displayName"
  /\ files["issue_comments"].rows = call.result.rows

\* what one table's processing does, in order: normalize the batch (with one
\* remote fetch per issue for worklogs and comments), read the stored
\* snapshot, write the merged snapshot back
TableTrace(t) ==
  << Event("normalize", t, 0) >>
  \o (IF t = "issue_worklogs"
      THEN [k \in 1..Len(issues) |-> Event("worklogs", t, issues[k].key)]
      ELSE IF t = "issue_comments"
      THEN [k \in 1..Len(issues) |-> Event("comments", t, issues[k].key)]
      ELSE << >>)
  \o << Event("read", t, 0), Event("write", t, 0) >>

\* the first n tables of the registry processed one after the other
RECURSIVE PassTrace(_)
PassTrace(n) ==
  IF n = 0 THEN << >> ELSE PassTrace(n - 1) \o TableTrace(DataParts[n])

Searches == { k \in 1..Len(log) : log[k].op = "search" }

\* the events of the pass after the batch was fetched
LoopLog ==
  LET s == CHOOSE k \in Searches : TRUE
  IN  SubSeq(log, s + 1, Len(log))

\* C13: in a pass the batch is fetched once and the six tables are processed
\* one at a time in registry order from that batch; each table is
\* normalized, read, merged and written back in that order, and no read,
\* write or per-issue remote fetch of another table comes in between.
C13_OneTableAtATime ==
  /\ idx >= 1 =>
       /\ Cardinality(Searches) = 1
       /\ pc = "PerTableMergeLoop" => LoopLog = PassTrace(idx - 1)
       /\ pc = "Done" => LoopLog = PassTrace(Len(DataParts))
       /\ pc = "Raised" =>
            \E m \in 0..Len(TableTrace(DataParts[idx])) :
              LoopLog = PassTrace(idx - 1)
                          \o SubSeq(TableTrace(DataParts[idx]), 1, m)
  /\ (Called /\ idx >= 1) =>
       /\ PartIndex(call.part) \in { idx - 1, idx }
       /\ call.updated =
            data_part_to_dataframe(issues, call.part, call.remote, now)
       /\ call.result =
            update_dataframe(call.existing, call.updated, CallKey)

\* C13 witness: a second pass over a batch of all issues that processed all
\* six tables, each issue having a comment.
C13_Witness ==
  /\ pc = "Done"
  /\ now = MaxPasses
  /\ Len(issues) = NumParents
  /\ Called
  /\ call.part = "issue_comments"
  /\ \A p \in Parents : Len(call.remote[p]) > 0

\* C14 (as claimed): for every table, the rows of one normalization call
\* carry in the table's key column the integers 1, 2, ..., n in emission
\* order.
C14_SequentialKeys ==
  Called =>
    \A k \in 1..Len(call.updated.rows) : call.updated.rows[k][CallKey] = k

\* C14 (amended): for every child table, the rows of one normalization call
\* carry in the table's key column the integers 1, 2, ..., n in emission
\* order, whatever keys are stored; the rows of the issues table carry the
\* issue keys of the batch, in batch order.
C14_ChildKeysSequential ==
  Called =>
    IF call.part = "issues"
    THEN /\ Len(call.updated.rows) = Len(issues)
         /\ \A k \in 1..Len(issues) :
              call.updated.rows[k]["issue_key"] = issues[k].key
    ELSE \A k \in 1..Len(call.updated.rows) :
           call.updated.rows[k][CallKey] = k

\* C14 witness: a child table normalized to more than one row while rows
\* with keys above 1 were stored for it.
C14_Witness ==
  /\ Called
  /\ call.part # "issues"
  /\ Len(call.updated.rows) > 1
  /\ \E r \in RowSet(call.existing.rows) : r[CallKey] > 1

\* C15: as long as no pass was ended inside the per-table loop, once the
\* issues table of the current pass is processed the stored issues snapshot
\* holds exactly one row for every issue returned by any pass so far, that
\* row being the one normalized from the latest batch holding the issue, and
\* no row for any other issue.
C15_ParentUpsert ==
  (~aborted /\ ~(pc = "PerTableMergeLoop" /\ idx = 1)) =>
    \A p \in Parents :
      LET rows == Referencing(files["issues"].rows, p)
      IN  IF returned[p] > 0
          THEN /\ Len(rows) = 1
               /\ rows[1]["rev"] = returned[p]
          ELSE rows = << >>

\* C15 witness: two completed passes, the second returning an issue the
\* first had returned too and not returning another one the first had
\* returned.
C15_Witness ==
  /\ ~aborted
  /\ pc = "Done"
  /\ now = 2
  /\ \E p, q \in Parents :
       /\ returned[p] = 1
       /\ returned[q] = 2
       /\ Referencing(files0["issues"].rows, q) # << >>

====
